---- MODULE Spec2Model ----
(***************************************************************************)
(* A model of nestjs-microservice-client-generator.                        *)
(*                                                                         *)
(*   Part I   the client proxy runtime (src/src/client.service.ts):        *)
(*            createClientProxy, its connect() helper and the Proxy get    *)
(*            handler with the bound call function it memoizes.            *)
(*   Part II  the generator (src/src/generate-patterns-from-decorators.ts) *)
(*            main(): the scan of the controllers, the validation of       *)
(*            every handler, the per-service checks and the exit code.     *)
(*                                                                         *)
(* Texts (identifiers, routing keys, source expressions) are sequences of  *)
(* tokens: a lower-case word ("users"), a capitalized word ("Users"), a    *)
(* separator ("-", "_", "."), a quote or another mark ("$", "{", "}").     *)
(***************************************************************************)
EXTENDS Integers, Sequences, FiniteSets, TLC

(***************************************************************************)
(* Bounds of the model.                                                    *)
(***************************************************************************)
\* calls issued on the proxy
MaxCalls == 2
\* subscriptions made to the calls' streams, all calls together
MaxSubs == 2
\* values one transport response stream emits
MaxEmits == 2
\* annotated methods the generator meets in one run, all modules together
MaxHandlers == 3

(***************************************************************************)
(* JavaScript values, as far as the proxy looks at them.                   *)
(***************************************************************************)
JsUndefined == [type |-> "undefined", val |-> <<>>, fields |-> {}]

JsString(text) == [type |-> "string", val |-> text, fields |-> {}]

JsBoolean(b) == [type |-> "boolean", val |-> IF b THEN <<"true">> ELSE <<"false">>, fields |-> {}]

\* an object literal with numeric properties, fields a set of <<name, number>>
JsObject(fs) == [type |-> "object", val |-> <<>>, fields |-> fs]

\* the condition of x ? a : b
Truthy(v) ==
  CASE v.type = "undefined" -> FALSE
    [] v.type = "boolean" -> v.val = <<"true">>
    [] v.type = "string" -> v.val /= <<>>
    [] OTHER -> TRUE

\* a plain object or an array: isArray and its own properties, keyed by
\* property name (an array index i is the property <<"i">>)
JsArray2(a, b) == [isArray |-> TRUE, props |-> (<<"0">> :> a) @@ (<<"1">> :> b)]

JsRecord(props) == [isArray |-> FALSE, props |-> props]

\* o[key]: undefined when the object has no such property
ElementAt(o, key) == IF key \in DOMAIN o.props THEN o.props[key] ELSE JsUndefined

(***************************************************************************)
(* generated/patterns.ts: service -> client method -> [routing key,        *)
(* hasPayload], the literal the generator writes.                          *)
(***************************************************************************)
patternMap ==
  ("users" :> JsRecord(
       (<<"get", "User">> :> JsArray2(JsString(<<"get", "-", "user">>), JsBoolean(TRUE)))
    @@ (<<"list", "$">> :> JsArray2(JsString(<<"list">>), JsBoolean(FALSE)))
    @@ (<<"emit", "Created">> :> JsArray2(JsString(<<"users", ".", "created">>), JsBoolean(TRUE)))))
  @@
  ("accounts" :> JsRecord(
       (<<"ping">> :> JsArray2(JsString(<<"ping">>), JsBoolean(FALSE)))))

ServiceNames == DOMAIN patternMap

\* the client methods recorded for a service
MethodsOf(s) == DOMAIN patternMap[s].props

SERVICE_TIMEOUT == 5000

\* the arguments callers pass: (options) or (payload, options)
SomePayload == JsObject({<<"id", 7>>})

SomeOptions == JsObject({<<"timeout", 100>>})

ArgPairs == { <<SomeOptions, JsUndefined>>, <<SomePayload, SomeOptions>> }

\* the reasons a transport gives when connect() fails
ConnectErrors == {<<"ECONNREFUSED">>}

TimeoutError == <<"TimeoutError">>

EmptyError == <<"EmptyError">>

NoError == <<>>

VARIABLES
  \* ---- Part I: one proxy returned by createClientProxy ----
  serviceName,    \* the service the proxy was built for
  destructuring,  \* how the build evaluates const [a, b] = obj
  firstCall,      \* the flag of createClientProxy
  target,         \* the Proxy's target: method name -> memoized binding
  getThrew,       \* an access to a method of the proxy threw a TypeError
  calls,          \* the calls made, in order
  subs,           \* the subscriptions to the calls' streams, in order
  status,         \* the latest value of client.status ("none": no value yet)
  \* ---- Part II: one run of the generator ----
  pc,               \* where main() is: "scan", "returned", "threw", "exited"
  moduleIdx,        \* the index in mainModulePaths of the module being scanned
  methods,          \* the MethodInfo records of the module being scanned
  methodsByModule,  \* module index -> its records, for the modules that have some
  errorFlag,        \* the module-level flag
  diagnostics,      \* what console.error printed, in order
  scanLog,          \* the annotated methods met so far and what became of each
  generated,        \* module index -> the proxy file written for it
  patternsFile,     \* generated/patterns.ts once written, <<>> before
  exitCode          \* the exit code of the process, -1 while it runs

clientVars == <<serviceName, destructuring, firstCall, target, getThrew, calls, subs, status>>

genVars ==
  <<pc, moduleIdx, methods, methodsByModule, errorFlag, diagnostics, scanLog,
    generated, patternsFile, exitCode>>

vars == <<clientVars, genVars>>

(***************************************************************************)
(* Part I.  createClientProxy                                              *)
(***************************************************************************)
StartsWith(name, tok) == Len(name) >= 1 /\ name[1] = tok

EndsWith(name, tok) == Len(name) >= 1 /\ name[Len(name)] = tok

\* const [a, b] = o: a native build iterates o and throws a TypeError when o
\* is not iterable; a down-levelled build reads o[0] and o[1]
DestructureThrows(o) == destructuring = "iterator" /\ ~o.isArray

\* the object the get handler destructures for methodName
PatternEntry(methodName) == patternMap[serviceName]

\* the function the get handler memoizes for methodName: what it captures
Binding(methodName) ==
  LET entry == PatternEntry(methodName)
      isEmitMethod == StartsWith(methodName, "emit")
  IN [pattern |-> ElementAt(entry, <<"0">>),
      hasPayload |-> ElementAt(entry, <<"1">>),
      isObservable |-> isEmitMethod \/ EndsWith(methodName, "$"),
      m |-> IF isEmitMethod THEN "emit" ELSE "send"]

\* options?.timeout ?? SERVICE_TIMEOUT
TimeoutOf(options) ==
  IF options.type = "object" /\ \E f \in options.fields : f[1] = "timeout"
  THEN (CHOOSE f \in options.fields : f[1] = "timeout")[2]
  ELSE SERVICE_TIMEOUT

PayloadOf(hasPayload, arg1) == IF Truthy(hasPayload) THEN arg1 ELSE JsObject({})

OptionsOf(hasPayload, arg1, arg2) == IF Truthy(hasPayload) THEN arg2 ELSE arg1

NoMsg == [m |-> "none", pattern |-> JsUndefined, payload |-> JsUndefined]

NotConnectedError == <<"Client not connected to ", serviceName>>

\* a subscription to ob$ that has not run yet
FreshSub(i) ==
  [call |-> i, phase |-> "new", attempts |-> 0, lastErr |-> NoError, err |-> NoError,
   observed |-> "none", msg |-> NoMsg, emitted |-> 0, value |-> 0]

\* switchMap(() => m(pattern, payload)): the message handed to the transport
Dispatch(sub, cs, tg) ==
  LET c == cs[sub.call]
      b == tg[c.methodName]
  IN [sub EXCEPT !.phase = "sent",
                 !.msg = [m |-> b.m, pattern |-> b.pattern, payload |-> c.payload]]

\* Observe without the tap that throws
ObserveIgnoringStatus(sub, s, cs, tg) == [Dispatch(sub, cs, tg) EXCEPT !.observed = s]

\* the status path: tap throws unless the status is "connected", first() takes it
Observe(sub, s, cs, tg) ==
  IF s = "connected"
  THEN [Dispatch(sub, cs, tg) EXCEPT !.observed = s]
  ELSE [sub EXCEPT !.phase = "notConnected", !.err = NotConnectedError, !.observed = s]

\* Deliver with no subscription listening to the feed
DeliverToNobody(ss, s) == ss

\* client.status emits s: every subscription waiting on the feed receives it
Deliver(ss, s) ==
  [j \in DOMAIN ss |-> IF ss[j].phase = "wait" THEN Observe(ss[j], s, calls, target) ELSE ss[j]]

\* retry({count: 5}): whether a failed attempt is followed by another one
RetryCount == 5

\* ShouldRetry with one retry too many
ShouldRetryOffByOne(soFar) == soFar <= RetryCount

ShouldRetry(soFar) == soFar < RetryCount

\* the error the retry operator lets through once the retries are used up
RetryExhausted(sub, reason) ==
  [sub EXCEPT !.phase = "connectFailed", !.err = reason]

\* firstValueFrom, had the call used it
firstValueFrom(vals) == vals[1]

\* lastValueFrom: the value a Promise-returning call resolves to
lastValueFrom(vals) == vals[Len(vals)]

\* the values a response stream emits: the n-th one is n
Emissions(n) == [k \in 1..n |-> k]

\* ob$ is subscribed: connect() chose the path when the call was made
Subscribed(i, cs, tg) ==
  IF cs[i].path = "connect"
  THEN [FreshSub(i) EXCEPT !.phase = "attempt", !.attempts = 1]
  ELSE IF status = "none"
       THEN [FreshSub(i) EXCEPT !.phase = "wait"]
       ELSE Observe(FreshSub(i), status, cs, tg)

SubsOf(i) == {j \in DOMAIN subs : subs[j].call = i}

\* the generator before main() runs
GenIdle ==
  /\ pc = "scan"
  /\ moduleIdx = 1
  /\ methods = <<>>
  /\ methodsByModule = [x \in {} |-> x]
  /\ errorFlag = FALSE
  /\ diagnostics = <<>>
  /\ scanLog = <<>>
  /\ generated = [x \in {} |-> x]
  /\ patternsFile = <<>>
  /\ exitCode = -1

ClientInit ==
  /\ GenIdle
  /\ serviceName \in ServiceNames
  /\ destructuring \in {"iterator", "indexed"}
  /\ firstCall = TRUE
  /\ target = [x \in {} |-> x]
  /\ getThrew = FALSE
  /\ calls = <<>>
  /\ subs = <<>>
  /\ status = "none"

\* proxy[methodName]: the memoized function, or the one the get handler builds
Get(methodName) ==
  IF methodName \in DOMAIN target
  THEN target
  ELSE target @@ (methodName :> Binding(methodName))

\* proxy[methodName](arg1, arg2).  The get handler throws where the build cannot
\* destructure; otherwise the bound function runs: a Promise-returning call
\* subscribes at once (lastValueFrom), a stream-returning call returns ob$ as is
Call(methodName, arg1, arg2) ==
  /\ Len(calls) < MaxCalls
  /\ IF methodName \notin DOMAIN target /\ DestructureThrows(PatternEntry(methodName))
     THEN /\ getThrew' = TRUE
          /\ UNCHANGED <<target, calls, firstCall, subs>>
     ELSE LET b == Get(methodName)[methodName]
              c == [methodName |-> methodName, arg1 |-> arg1, arg2 |-> arg2,
                    payload |-> PayloadOf(b.hasPayload, arg1),
                    ms |-> TimeoutOf(OptionsOf(b.hasPayload, arg1, arg2)),
                    path |-> IF firstCall THEN "connect" ELSE "status",
                    returns |-> IF b.isObservable THEN "Observable" ELSE "Promise"]
              cs == Append(calls, c)
          IN /\ b.isObservable \/ Len(subs) < MaxSubs
             /\ target' = Get(methodName)
             /\ calls' = cs
             /\ firstCall' = FALSE
             /\ subs' = IF b.isObservable THEN subs
                        ELSE Append(subs, Subscribed(Len(cs), cs, target'))
             /\ UNCHANGED getThrew
  /\ UNCHANGED <<genVars, serviceName, destructuring, status>>

\* the caller subscribes to the stream a call returned
Subscribe(i) ==
  /\ i \in DOMAIN calls
  /\ calls[i].returns = "Observable"
  /\ Len(subs) < MaxSubs
  /\ subs' = Append(subs, Subscribed(i, calls, target))
  /\ UNCHANGED <<genVars, serviceName, destructuring, firstCall, target, getThrew, calls, status>>

\* client.connect() succeeds: the transport reports "connected", first() takes
\* the emission and switchMap dispatches
ConnectResolves(j) ==
  /\ j \in DOMAIN subs
  /\ subs[j].phase = "attempt"
  /\ status' = "connected"
  /\ subs' = Deliver([subs EXCEPT ![j] = Dispatch(@, calls, target)], "connected")
  /\ UNCHANGED <<genVars, serviceName, destructuring, firstCall, target, getThrew, calls>>

\* client.connect() fails with reason, or timeout(2000) gives up on it; the
\* transport may report "disconnected" on its status feed
ConnectRejects(j, reason, reported) ==
  /\ j \in DOMAIN subs
  /\ subs[j].phase = "attempt"
  /\ LET sub == [subs[j] EXCEPT !.lastErr = reason]
         after == IF ShouldRetry(sub.attempts - 1)
                  THEN [sub EXCEPT !.phase = "delay"]
                  ELSE RetryExhausted(sub, reason)
         ss == [subs EXCEPT ![j] = after]
     IN IF reported
        THEN /\ status' = "disconnected"
             /\ subs' = Deliver(ss, "disconnected")
        ELSE /\ UNCHANGED status
             /\ subs' = ss
  /\ UNCHANGED <<genVars, serviceName, destructuring, firstCall, target, getThrew, calls>>

\* the retry delay (3000 ms) of a failed attempt is over: connect() again
RetryTimer(j) ==
  /\ j \in DOMAIN subs
  /\ subs[j].phase = "delay"
  /\ subs' = [subs EXCEPT ![j].phase = "attempt", ![j].attempts = @ + 1]
  /\ UNCHANGED <<genVars, serviceName, destructuring, firstCall, target, getThrew, calls, status>>

\* the transport loses an established connection
ConnectionLost ==
  /\ status = "connected"
  /\ status' = "disconnected"
  /\ subs' = Deliver(subs, "disconnected")
  /\ UNCHANGED <<genVars, serviceName, destructuring, firstCall, target, getThrew, calls>>

\* the response stream emits n values in time and completes
Respond(j, n) ==
  /\ j \in DOMAIN subs
  /\ subs[j].phase = "sent"
  /\ subs' = [subs EXCEPT ![j] =
       IF calls[subs[j].call].returns = "Observable"
       THEN [@ EXCEPT !.phase = "done", !.emitted = n]
       ELSE IF n = 0
            THEN [@ EXCEPT !.phase = "responseFailed", !.err = EmptyError]
            ELSE [@ EXCEPT !.phase = "done", !.emitted = n,
                           !.value = lastValueFrom(Emissions(n))]]
  /\ UNCHANGED <<genVars, serviceName, destructuring, firstCall, target, getThrew, calls, status>>

\* the response stream stays silent for ms: timeout(ms) errors
ResponseTimeout(j) ==
  /\ j \in DOMAIN subs
  /\ subs[j].phase = "sent"
  /\ subs' = [subs EXCEPT ![j] =
       [@ EXCEPT !.phase = "responseFailed", !.err = TimeoutError]]
  /\ UNCHANGED <<genVars, serviceName, destructuring, firstCall, target, getThrew, calls, status>>

ClientNext ==
  \/ \E methodName \in MethodsOf(serviceName), args \in ArgPairs :
       Call(methodName, args[1], args[2])
  \/ \E i \in DOMAIN calls : Subscribe(i)
  \/ \E j \in DOMAIN subs : ConnectResolves(j)
  \/ \E j \in DOMAIN subs, reason \in ConnectErrors \cup {TimeoutError},
        reported \in BOOLEAN : ConnectRejects(j, reason, reported)
  \/ \E j \in DOMAIN subs : RetryTimer(j)
  \/ ConnectionLost
  \/ \E j \in DOMAIN subs, n \in 0..MaxEmits : Respond(j, n)
  \/ \E j \in DOMAIN subs : ResponseTimeout(j)

Spec == ClientInit /\ [][ClientNext]_vars

(***************************************************************************)
(* Part II.  generate-patterns-from-decorators.ts                          *)
(***************************************************************************)
\* the words of the model's texts, lower-case and capitalized
CapTable ==
  { <<"users", "Users">>, <<"user", "User">>, <<"accounts", "Accounts">>,
    <<"created", "Created">>, <<"audit", "Audit">>, <<"get", "Get">>,
    <<"list", "List">>, <<"find", "Find">>, <<"ping", "Ping">>, <<"stats", "Stats">>,
    <<"on", "On">>, <<"emit", "Emit">>, <<"any", "Any">>, <<"num", "Num">>,
    <<"bare", "Bare">>, <<"admin", "Admin">>, <<"controller", "Controller">>,
    <<"v2", "V2">>, <<"1", "1">>, <<"5", "5">> }

\* the quotes of a string literal; "backtick" is the quote of a template literal
Quotes == {"'", "\"", "backtick"}

IsWord(t) == \E p \in CapTable : t = p[1] \/ t = p[2]

Cap(t) == IF \E p \in CapTable : p[1] = t THEN (CHOOSE p \in CapTable : p[1] = t)[2] ELSE t

Uncap(t) == IF \E p \in CapTable : p[2] = t THEN (CHOOSE p \in CapTable : p[2] = t)[1] ELSE t

\* the words of a text, lower-cased: what the case conversions of remeda split it in
WordsOf(text) ==
  LET ws == SelectSeq(text, IsWord)
  IN [i \in 1..Len(ws) |-> Uncap(ws[i])]

RECURSIVE Join(_, _)
Join(texts, sep) ==
  IF texts = <<>> THEN <<>>
  ELSE IF Len(texts) = 1 THEN texts[1]
  ELSE texts[1] \o <<sep>> \o Join(Tail(texts), sep)

\* R.toCamelCase
toCamelCase(text) ==
  LET ws == WordsOf(text)
  IN [i \in 1..Len(ws) |-> IF i = 1 THEN ws[i] ELSE Cap(ws[i])]

\* R.capitalize, R.uncapitalize: the first character only
capitalize(text) == IF text = <<>> THEN text ELSE <<Cap(text[1])>> \o Tail(text)

uncapitalize(text) == IF text = <<>> THEN text ELSE <<Uncap(text[1])>> \o Tail(text)

\* R.toKebabCase
toKebabCase(text) ==
  LET ws == WordsOf(text)
  IN Join([i \in 1..Len(ws) |-> <<ws[i]>>], "-")

\* the basenames of apps/*/src/*.module.ts, in the order main() scans them
mainModulePaths == << <<"users">>, <<"user", "-", "accounts">> >>

ServiceNameOf(basename) == capitalize(toCamelCase(basename))

ServiceNameKebabOf(basename) == toKebabCase(ServiceNameOf(basename))

(***************************************************************************)
(* Types and values of pattern expressions.  A type is a literal type, a   *)
(* tuple of types, an object type with no property, string or a union.   *)
(***************************************************************************)
StringLiteralType(content) == [kind |-> "stringLiteral", text |-> content, elems |-> <<>>]

NumberLiteralType(digits) == [kind |-> "numberLiteral", text |-> digits, elems |-> <<>>]

TupleType(types) == [kind |-> "tuple", text |-> <<>>, elems |-> types]

EmptyObjectType == [kind |-> "object", text |-> <<>>, elems |-> <<>>]

StringType == [kind |-> "string", text |-> <<>>, elems |-> <<>>]

UnionType == [kind |-> "union", text |-> <<>>, elems |-> <<>>]

\* patternExprType.getFlags() & TypeFlags.StringLike
StringLike(type) == type.kind \in {"stringLiteral", "string"}

Thrown == [kind |-> "thrown", text |-> <<>>, elems |-> <<>>]

\* valueFromType: the one value of the type, Thrown where it throws
RECURSIVE valueFromType(_)
valueFromType(type) ==
  CASE type.kind = "stringLiteral" -> [kind |-> "string", text |-> type.text, elems |-> <<>>]
    [] type.kind = "numberLiteral" -> [kind |-> "number", text |-> type.text, elems |-> <<>>]
    [] type.kind = "tuple" ->
         LET vs == [i \in 1..Len(type.elems) |-> valueFromType(type.elems[i])]
         IN IF \E i \in 1..Len(vs) : vs[i] = Thrown THEN Thrown
            ELSE [kind |-> "array", text |-> <<>>, elems |-> vs]
    [] type.kind = "object" -> [kind |-> "object", text |-> <<>>, elems |-> <<>>]
    [] OTHER -> Thrown

RECURSIVE JSONstringify(_)
JSONstringify(value) ==
  CASE value.kind = "string" -> <<"\"">> \o value.text \o <<"\"">>
    [] value.kind = "number" -> value.text
    [] value.kind = "array" ->
         <<"[">> \o Join([i \in 1..Len(value.elems) |-> JSONstringify(value.elems[i])], ",")
                 \o <<"]">>
    [] OTHER -> <<"{", "}">>

\* R.isEmpty(eval((${pattern}))): the text denotes "", [] or {}
IsEmptyPattern(pattern) ==
  \/ Len(pattern) = 2 /\ pattern[1] \in Quotes /\ pattern[2] = pattern[1]
  \/ pattern = <<"[", "]">>
  \/ pattern = <<"{", "}">>

\* the argument of the decorator: written inline as a literal (its source text),
\* or any other expression (only its type counts), or missing
InlineString(q, content) ==
  [given |-> TRUE, inline |-> TRUE, text |-> <<q>> \o content \o <<q>>,
   type |-> StringLiteralType(content)]

InlineNumber(digits) ==
  [given |-> TRUE, inline |-> TRUE, text |-> digits, type |-> NumberLiteralType(digits)]

InlineEmptyObject ==
  [given |-> TRUE, inline |-> TRUE, text |-> <<"{", "}">>, type |-> EmptyObjectType]

Typed(type) == [given |-> TRUE, inline |-> FALSE, text |-> <<>>, type |-> type]

NoArgument == [given |-> FALSE, inline |-> FALSE, text |-> <<>>, type |-> UnionType]

\* eventPatternRe.test(pattern): a quote, the kebab-case service name, a dot, a
\* name of word characters and dashes, and the opening quote again
NameToken(t) == IsWord(t) \/ t \in {"-", "_"}

EventNameIn(pattern, kebab) == SubSeq(pattern, 3 + Len(kebab), Len(pattern) - 1)

\* eventPatternRe without the service name: any quoted dotted name
eventPatternReTestLoose(pattern, kebab) ==
  /\ Len(pattern) >= 3
  /\ pattern[1] \in Quotes
  /\ pattern[Len(pattern)] = pattern[1]
  /\ \A i \in 2..(Len(pattern) - 1) : NameToken(pattern[i]) \/ pattern[i] = "."

eventPatternReTest(pattern, kebab) ==
  /\ Len(pattern) >= 4 + Len(kebab)
  /\ pattern[1] \in Quotes
  /\ SubSeq(pattern, 2, 1 + Len(kebab)) = kebab
  /\ pattern[2 + Len(kebab)] = "."
  /\ \A i \in 1..Len(EventNameIn(pattern, kebab)) : NameToken(EventNameIn(pattern, kebab)[i])
  /\ pattern[Len(pattern)] = pattern[1]

(***************************************************************************)
(* The annotated methods a run can meet.  A declaration is: the pattern    *)
(* decorator ("none" for a method without one), the exported class and the *)
(* controller file it is in, its name, the decorator's argument, the       *)
(* number of parameters and the index of the one decorated with Payload or *)
(* Body (-1: none is).                                                     *)
(***************************************************************************)
Decl(decorator, className, file, methodName, patternExpr, nparams, decorated) ==
  [decorator |-> decorator, className |-> className, file |-> file,
   methodName |-> methodName, patternExpr |-> patternExpr,
   nparams |-> nparams, decorated |-> decorated]

UsersCtl == <<"Users", "Controller">>

AdminCtl == <<"Admin", "Controller">>

MessageDeclarations ==
  { Decl("MessagePattern", UsersCtl, "users.controller", <<"get", "User">>,
         InlineString("'", <<"get", "-", "user">>), 1, -1),
    Decl("MessagePattern", AdminCtl, "admin.controller", <<"get", "User">>,
         Typed(TupleType(<<StringLiteralType(<<"users">>), NumberLiteralType(<<"1">>)>>)), 2, 1),
    Decl("MessagePattern", UsersCtl, "admin.controller", <<"list", "$">>,
         Typed(StringLiteralType(<<"list">>)), 0, -1),
    Decl("MessagePattern", UsersCtl, "users.controller", <<"emit", "User">>,
         InlineString("'", <<"emit", "-", "user">>), 1, -1),
    Decl("MessagePattern", UsersCtl, "users.controller", <<"find">>,
         Typed(UnionType), 1, -1),
    Decl("MessagePattern", AdminCtl, "admin.controller", <<"ping">>,
         InlineEmptyObject, 0, -1),
    Decl("MessagePattern", AdminCtl, "admin.controller", <<"stats">>,
         NoArgument, 0, -1) }

EventDeclarations ==
  { Decl("EventPattern", UsersCtl, "users.controller", <<"on", "Created">>,
         InlineString("'", <<"users", ".", "created">>), 1, -1),
    Decl("EventPattern", AdminCtl, "admin.controller", <<"on", "Created", "Audit">>,
         Typed(StringLiteralType(<<"users", ".", "created">>)), 0, -1),
    Decl("EventPattern", UsersCtl, "users.controller", <<"on", "User", "Created">>,
         InlineString("backtick", <<"user", "-", "accounts", ".", "user", "-", "created">>), 2, 1),
    Decl("EventPattern", UsersCtl, "users.controller", <<"on", "Any">>,
         InlineString("\"", <<"users", ".", "created", ".", "v2">>), 1, -1),
    Decl("EventPattern", UsersCtl, "users.controller", <<"on", "Num">>,
         InlineNumber(<<"5">>), 1, -1),
    Decl("EventPattern", AdminCtl, "admin.controller", <<"on", "Bare">>,
         InlineString("'", <<"created">>), 1, -1),
    Decl("EventPattern", AdminCtl, "admin.controller", <<"on", "Audit">>,
         Typed(StringType), 1, -1) }

\* a method of an exported class that carries no pattern decorator
PlainDeclarations ==
  { Decl("none", UsersCtl, "users.controller", <<"find">>, NoArgument, 0, -1) }

Declarations == MessageDeclarations \cup EventDeclarations \cup PlainDeclarations

(***************************************************************************)
(* The callback of the scan: one annotated method of the module in turn.   *)
(***************************************************************************)
isEventHandler(d) == d.decorator = "EventPattern"

\* valueFromType throws on the type of the argument (inline text needs no type)
ExtractionThrows(d) == ~d.patternExpr.inline /\ valueFromType(d.patternExpr.type) = Thrown

\* the text the try block leaves in pattern
PatternOf(d) ==
  IF d.patternExpr.inline
  THEN d.patternExpr.text
  ELSE IF ExtractionThrows(d) THEN <<>>
       ELSE JSONstringify(valueFromType(d.patternExpr.type))

CantExtract(d) == ExtractionThrows(d) \/ IsEmptyPattern(PatternOf(d))

\* parameters.findIndex(...) and the default to the first parameter
ParamIndexOf(d) == IF d.nparams > 0 /\ d.decorated = -1 THEN 0 ELSE d.decorated

\* what the callback does with declaration d in the module of basename b:
\* "skipped" (no pattern decorator), "threw" (getTypeAtLocation of a missing
\* argument), the kind of the diagnostic it prints, or "record"
OutcomeOf(d, b) ==
  CASE d.decorator = "none" -> "skipped"
    [] d.decorator /= "none" /\ ~d.patternExpr.given -> "threw"
    [] OTHER ->
       IF isEventHandler(d) /\ ~StringLike(d.patternExpr.type) THEN "notStringLike"
       ELSE IF ~isEventHandler(d) /\ StartsWith(d.methodName, "emit") THEN "emitPrefix"
       ELSE IF CantExtract(d) THEN "cantExtract"
       ELSE IF isEventHandler(d) /\ ~eventPatternReTest(PatternOf(d), ServiceNameKebabOf(b))
            THEN "eventFormat"
       ELSE "record"

DiagnosticKinds == {"notStringLike", "emitPrefix", "cantExtract", "eventFormat"}

\* the MethodInfo the callback returns; pos stands for the method node
MethodInfo(d, m, pos) ==
  [controllerPath |-> <<m, d.file>>,
   className |-> d.className,
   methodName |-> d.methodName,
   pattern |-> PatternOf(d),
   paramIndex |-> ParamIndexOf(d),
   serviceName |-> ServiceNameOf(mainModulePaths[m]),
   isEventHandler |-> isEventHandler(d),
   eventName |-> IF isEventHandler(d)
                 THEN toCamelCase(EventNameIn(PatternOf(d),
                                              ServiceNameKebabOf(mainModulePaths[m])))
                 ELSE <<>>,
   pos |-> pos]

\* one line of console.error: its kind, the service or module it is about, the
\* method it names and the source locations (file, line:column) it cites
Diagnostic(kind, m, name, locs) == [kind |-> kind, module |-> m, name |-> name, locs |-> locs]

(***************************************************************************)
(* After the scan of a module: aliases, imports, duplicate names, the      *)
(* interface file.                                                         *)
(***************************************************************************)
\* the elements of a set of numbers in increasing order
Ascending(S) ==
  [k \in 1..Cardinality(S) |-> CHOOSE i \in S : Cardinality({j \in S : j < i}) = k - 1]

\* R.groupBy followed by R.values, keys[i] being the key of infos[i]: the groups
\* in the order their keys first occur, each in the order of infos
groupBy(infos, keys) ==
  LET firsts == Ascending({i \in 1..Len(infos) : \A j \in 1..(i - 1) : keys[j] /= keys[i]})
  IN [k \in 1..Len(firsts) |->
        LET members == Ascending({i \in 1..Len(infos) : keys[i] = keys[firsts[k]]})
        IN [n \in 1..Len(members) |-> infos[members[n]]]]

\* R.prop(name) of every element
prop(infos, name) == [i \in 1..Len(infos) |-> infos[i][name]]

\* R.unique
unique(xs) ==
  LET firsts == Ascending({i \in 1..Len(xs) : \A j \in 1..(i - 1) : xs[j] /= xs[i]})
  IN [k \in 1..Len(firsts) |-> xs[firsts[k]]]

\* the class names met in more than one controller file of the module
duplicateControllerNames(infos) ==
  {c \in {infos[i].className : i \in 1..Len(infos)} :
     Cardinality({infos[i].controllerPath :
                    i \in {j \in 1..Len(infos) : infos[j].className = c}}) > 1}

\* info.className while the imports are generated, and after
AliasedForImport(infos) ==
  [i \in 1..Len(infos) |->
     IF infos[i].className \in duplicateControllerNames(infos)
     THEN [infos[i] EXCEPT !.className = @ \o <<" as ">> \o infos[i].serviceName \o @]
     ELSE infos[i]]

AliasedForInterface(infos) ==
  [i \in 1..Len(infos) |->
     IF infos[i].className \in duplicateControllerNames(infos)
     THEN [infos[i] EXCEPT !.className = infos[i].serviceName \o @]
     ELSE infos[i]]

\* one import statement per controller file: the names it lists and the file
controllerClassImports(infos) ==
  LET byPath == groupBy(AliasedForImport(infos), prop(AliasedForImport(infos), "controllerPath"))
  IN [k \in 1..Len(byPath) |->
        [classes |-> unique([i \in 1..Len(byPath[k]) |-> byPath[k][i].className]),
         from |-> byPath[k][1].controllerPath]]

\* duplicateGroups with the size test off by one
duplicateGroupsOverTwo(infos) ==
  SelectSeq(groupBy(infos, prop(infos, "methodName")), LAMBDA group : Len(group) > 2)

\* the groups of records of the module that share a method name
duplicateGroups(infos) ==
  SelectSeq(groupBy(infos, prop(infos, "methodName")), LAMBDA group : Len(group) > 1)

DuplicateDiagnostics(infos, m) ==
  LET groups == duplicateGroups(infos)
  IN [k \in 1..Len(groups) |->
        Diagnostic("duplicateMethods", m, groups[k][1].methodName,
                   [i \in 1..Len(groups[k]) |->
                      <<groups[k][i].controllerPath, groups[k][i].pos>>])]

generateMsgProxyMethods(info) ==
  [methodName |-> info.methodName, className |-> info.className,
   ofMethod |-> info.methodName, paramIndex |-> info.paramIndex]

generateEventProxyMethods(eventInfos) ==
  LET groups == groupBy(eventInfos, prop(eventInfos, "eventName"))
  IN [k \in 1..Len(groups) |->
        [methodName |-> <<"emit">> \o capitalize(groups[k][1].eventName),
         payloadType |->
           LET withPayload == SelectSeq(groups[k], LAMBDA info : info.paramIndex /= -1)
           IN [i \in 1..Len(withPayload) |->
                 [className |-> withPayload[i].className,
                  ofMethod |-> withPayload[i].methodName,
                  paramIndex |-> withPayload[i].paramIndex]]]]

\* the content of <service>.proxy.generated.ts
InterfaceFile(infos) ==
  LET renamed == AliasedForInterface(infos)
  IN [imports |-> controllerClassImports(infos),
      interface |-> renamed[1].serviceName \o <<"Proxy">>,
      msgs |-> LET ms == SelectSeq(renamed, LAMBDA info : ~info.isEventHandler)
               IN [i \in 1..Len(ms) |-> generateMsgProxyMethods(ms[i])],
      events |-> generateEventProxyMethods(
                   SelectSeq(renamed, LAMBDA info : info.isEventHandler))]

(***************************************************************************)
(* After the loop: the routing-key map of generated/patterns.ts.           *)
(***************************************************************************)
PatternMapEntry(info) ==
  [key |-> IF info.isEventHandler THEN <<"emit">> \o capitalize(info.eventName)
           ELSE info.methodName,
   pattern |-> info.pattern,
   hasPayload |-> info.paramIndex /= -1]

PatternMapOf(byModule) ==
  LET ms == Ascending(DOMAIN byModule)
  IN [k \in 1..Len(ms) |->
        [name |-> uncapitalize(byModule[ms[k]][1].serviceName),
         entries |-> [i \in 1..Len(byModule[ms[k]]) |-> PatternMapEntry(byModule[ms[k]][i])]]]

\* the runs of equal basenames among the module paths (there are none: the glob
\* keeps one module per application directory)
duplicateServices ==
  SelectSeq(groupBy(mainModulePaths, mainModulePaths), LAMBDA group : Len(group) > 1)

(***************************************************************************)
(* One run of the generator.                                               *)
(***************************************************************************)
Scanning == pc = "scan" /\ moduleIdx <= Len(mainModulePaths)

\* the scan meets method d in the module in turn (lines 128-235)
ScanMethod(d) ==
  LET pos == Len(scanLog) + 1
      outcome == OutcomeOf(d, mainModulePaths[moduleIdx])
  IN /\ Scanning
     /\ Len(scanLog) < MaxHandlers
     /\ scanLog' = Append(scanLog, [decl |-> d, module |-> moduleIdx, pos |-> pos,
                                    outcome |-> outcome])
     /\ pc' = IF outcome = "threw" THEN "threw" ELSE pc
     /\ methods' = IF outcome = "record"
                   THEN Append(methods, MethodInfo(d, moduleIdx, pos))
                   ELSE methods
     /\ diagnostics' = IF outcome \in DiagnosticKinds
                       THEN Append(diagnostics,
                                   Diagnostic(outcome, moduleIdx, d.methodName,
                                              << <<<<moduleIdx, d.file>>, pos>> >>))
                       ELSE diagnostics
     /\ errorFlag' = IF outcome \in DiagnosticKinds THEN TRUE ELSE errorFlag
     /\ UNCHANGED <<clientVars, moduleIdx, methodsByModule, generated, patternsFile, exitCode>>

\* the module in turn has no more methods (lines 241-327)
EndModule ==
  /\ Scanning
  /\ IF Len(methods) = 0
     THEN UNCHANGED <<diagnostics, errorFlag, generated, methodsByModule>>
     ELSE /\ diagnostics' = diagnostics \o DuplicateDiagnostics(methods, moduleIdx)
          /\ errorFlag' = IF Len(duplicateGroups(methods)) > 0 THEN TRUE ELSE errorFlag
          /\ generated' = generated @@ (moduleIdx :> InterfaceFile(methods))
          /\ methodsByModule' = methodsByModule @@ (moduleIdx :> AliasedForInterface(methods))
  /\ methods' = <<>>
  /\ moduleIdx' = moduleIdx + 1
  /\ UNCHANGED <<clientVars, pc, scanLog, patternsFile, exitCode>>

\* after the last module: service names, patterns.ts, main() returns (lines 369-475)
Finalize ==
  /\ pc = "scan"
  /\ moduleIdx > Len(mainModulePaths)
  /\ diagnostics' = diagnostics \o
       [k \in 1..Len(duplicateServices) |->
          Diagnostic("duplicateServices", 0, duplicateServices[k][1], <<>>)]
  /\ errorFlag' = IF Len(duplicateServices) > 0 THEN TRUE ELSE errorFlag
  /\ patternsFile' = <<PatternMapOf(methodsByModule)>>
  /\ pc' = "returned"
  /\ UNCHANGED <<clientVars, moduleIdx, methods, methodsByModule, scanLog, generated, exitCode>>

\* the then and catch callbacks of main() (lines 477-486)
ExitCode(returned, flag) == IF returned THEN (IF flag THEN 1 ELSE 0) ELSE 1

Exit ==
  /\ pc \in {"returned", "threw"}
  /\ exitCode' = ExitCode(pc = "returned", errorFlag)
  /\ pc' = "exited"
  /\ UNCHANGED <<clientVars, moduleIdx, methods, methodsByModule, errorFlag, diagnostics, scanLog,
                 generated, patternsFile>>

GenNext ==
  \/ \E d \in Declarations : ScanMethod(d)
  \/ EndModule
  \/ Finalize
  \/ Exit

\* the generator's process builds no proxy
NoProxy ==
  /\ serviceName = "none"
  /\ destructuring = "none"
  /\ firstCall = TRUE
  /\ target = [x \in {} |-> x]
  /\ getThrew = FALSE
  /\ calls = <<>>
  /\ subs = <<>>
  /\ status = "none"

GenInit == GenIdle /\ NoProxy

GenSpec == GenInit /\ [][GenNext]_vars

(***************************************************************************)
(* Part I: properties                                                      *)
(***************************************************************************)
\* what the routing-key map records for method m of the proxy's service
Recorded(m) == patternMap[serviceName].props[m]

ConnectPath(j) == calls[subs[j].call].path = "connect"

StatusPath(j) == calls[subs[j].call].path = "status"

Connecting(j) == subs[j].phase \in {"attempt", "delay"}

\* C1: every function the proxy hands out for a recorded method M dispatches
\* with the routing key and the hasPayload flag recorded for M under the service
C1_BindingMatchesPatternMap ==
  /\ ~getThrew
  /\ \A m \in DOMAIN target :
       /\ target[m].pattern = Recorded(m).props[<<"0">>]
       /\ target[m].hasPayload = Recorded(m).props[<<"1">>]

\* C2: a call is rejected by the connection only after the initial attempt and
\* exactly 5 retries, never after a sixth, with the reason of the failed connect
C2_RejectedAfterFiveRetries ==
  \A j \in DOMAIN subs :
    /\ subs[j].attempts <= 1 + 5
    /\ subs[j].phase = "connectFailed" =>
         /\ subs[j].attempts = 1 + 5
         /\ subs[j].err = subs[j].lastErr
         /\ subs[j].err \in ConnectErrors \cup {TimeoutError}
         /\ subs[j].msg = NoMsg

C2_Witness ==
  \E j \in DOMAIN subs :
    /\ subs[j].call = 1
    /\ ConnectPath(j)
    /\ subs[j].phase = "connectFailed"

\* C3: the connect-with-retry sequence is started at most once over the
\* proxy's lifetime
C3_ConnectStartedAtMostOnce ==
  Cardinality({j \in DOMAIN subs : subs[j].attempts >= 1}) <= 1

\* C4 as claimed: a later call is not failed while the connection of the first
\* call is still being established
C4_NotFailedWhileConnecting ==
  \A j, k \in DOMAIN subs :
    (k < j /\ Connecting(k) /\ StatusPath(j)) => subs[j].phase /= "notConnected"

\* C4 as amended: a later call starts no connect attempt and waits for as long
\* as the status feed has delivered nothing; the first status delivered decides:
\* "connected" dispatches the call, any other status fails it as not connected
C4_WaitsForFirstStatus ==
  \A j \in DOMAIN subs :
    StatusPath(j) =>
      /\ subs[j].attempts = 0
      /\ (subs[j].phase = "wait") = (subs[j].observed = "none")
      /\ subs[j].phase = "wait" => status = "none"
      /\ subs[j].observed = "connected" => subs[j].msg /= NoMsg
      /\ subs[j].phase = "notConnected" => subs[j].observed = "disconnected"

C4_Witness ==
  \E j, k \in DOMAIN subs :
    /\ k < j
    /\ Connecting(k)
    /\ subs[k].attempts >= 2
    /\ StatusPath(j)
    /\ subs[j].phase = "wait"

\* C5 as claimed: a Promise-returning call resolves to the first emission of
\* the response stream
C5_ResolvesToFirstEmission ==
  \A j \in DOMAIN subs :
    (calls[subs[j].call].returns = "Promise" /\ subs[j].phase = "done") =>
      subs[j].value = Emissions(subs[j].emitted)[1]

\* C5 as amended: a method named ...$ or emit... returns the stream; any other
\* method returns a Promise of the last emission of the completed response
\* stream (the first one only when the stream emits a single value)
C5_StreamOrLastEmission ==
  /\ \A i \in DOMAIN calls :
       (calls[i].returns = "Observable") =
         (EndsWith(calls[i].methodName, "$") \/ StartsWith(calls[i].methodName, "emit"))
  /\ \A j \in DOMAIN subs :
       (calls[subs[j].call].returns = "Promise" /\ subs[j].phase = "done") =>
         /\ subs[j].emitted >= 1
         /\ subs[j].value = Emissions(subs[j].emitted)[subs[j].emitted]

C5_Witness ==
  \E j \in DOMAIN subs :
    /\ calls[subs[j].call].returns = "Promise"
    /\ subs[j].phase = "done"
    /\ subs[j].emitted = 2

\* C6: hasPayload recorded false: the one argument is the options object and
\* the payload sent is empty; recorded true: (payload, options)
C6_ArgumentsByRecordedHasPayload ==
  \A i \in DOMAIN calls :
    IF Truthy(Recorded(calls[i].methodName).props[<<"1">>])
    THEN calls[i].payload = calls[i].arg1 /\ calls[i].ms = TimeoutOf(calls[i].arg2)
    ELSE calls[i].payload = JsObject({}) /\ calls[i].ms = TimeoutOf(calls[i].arg1)

\* C7: every call after the first takes the status path; it is dispatched only
\* on observing "connected", and on any other status it fails with the
\* not-connected error naming the service and sends nothing
C7_DispatchedOnlyWhenConnected ==
  /\ \A i \in DOMAIN calls : (calls[i].path = "status") = (i > 1)
  /\ \A j \in DOMAIN subs :
       StatusPath(j) =>
         /\ subs[j].msg /= NoMsg => subs[j].observed = "connected"
         /\ subs[j].phase \in {"sent", "done", "responseFailed"} => subs[j].msg /= NoMsg
         /\ subs[j].observed \notin {"none", "connected"} =>
              /\ subs[j].phase = "notConnected"
              /\ subs[j].err = <<"Client not connected to ", serviceName>>
              /\ subs[j].msg = NoMsg

C7_Witness ==
  \E j \in DOMAIN subs :
    /\ StatusPath(j)
    /\ subs[j].phase = "notConnected"
    /\ subs[j].observed = "disconnected"

(***************************************************************************)
(* Part II: properties                                                     *)
(***************************************************************************)
\* every module has been scanned to its end
ScanComplete == moduleIdx > Len(mainModulePaths)

\* the entries of the scan log that became records of module m
RecordEntries(m) ==
  {i \in DOMAIN scanLog : scanLog[i].module = m /\ scanLog[i].outcome = "record"}

LocationOf(i) == <<<<scanLog[i].module, scanLog[i].decl.file>>, scanLog[i].pos>>

\* the records the generator holds: of the finished modules and of the one in turn
HeldRecords ==
  {methods[i] : i \in DOMAIN methods}
    \cup UNION {{methodsByModule[m][i] : i \in DOMAIN methodsByModule[m]} :
                  m \in DOMAIN methodsByModule}

\* C8: exit code 0 only if no diagnostic was raised; a diagnostic marks the run
\* failed for good; the process exits nonzero only after the scan has gone
\* over every handler and every module
C8_ExitOnlyAfterFullScan ==
  /\ exitCode = 0 => diagnostics = <<>>
  /\ diagnostics /= <<>> => errorFlag
  /\ exitCode \notin {-1, 0} => ScanComplete

\* C9: in a module scanned to its end, every group of two or more records with
\* one method name has exactly one diagnostic, which cites the location of each
\* record of the group; a run with such a group never exits with code 0; a run
\* that met no annotated method raises no diagnostic and exits with code 0
C9_DuplicateNamesReported ==
  /\ \A m \in 1..Len(mainModulePaths) :
       \A i \in RecordEntries(m) :
         LET group == {j \in RecordEntries(m) :
                         scanLog[j].decl.methodName = scanLog[i].decl.methodName}
             cited == {k \in DOMAIN diagnostics :
                         /\ diagnostics[k].kind = "duplicateMethods"
                         /\ diagnostics[k].module = m
                         /\ diagnostics[k].name = scanLog[i].decl.methodName}
         IN Cardinality(group) >= 2 =>
              /\ exitCode /= 0
              /\ m < moduleIdx =>
                   /\ Cardinality(cited) = 1
                   /\ \A k \in cited :
                        /\ Len(diagnostics[k].locs) = Cardinality(group)
                        /\ {diagnostics[k].locs[n] : n \in DOMAIN diagnostics[k].locs}
                             = {LocationOf(j) : j \in group}
                   /\ errorFlag
  /\ (pc = "exited" /\ \A i \in DOMAIN scanLog : scanLog[i].outcome = "skipped") =>
       /\ diagnostics = <<>>
       /\ exitCode = 0

C9_Witness ==
  /\ pc = "exited"
  /\ exitCode = 1
  /\ \E k \in DOMAIN diagnostics, i, j \in DOMAIN scanLog :
       /\ diagnostics[k].kind = "duplicateMethods"
       /\ i /= j
       /\ scanLog[i].decl.className /= scanLog[j].decl.className
       /\ diagnostics[k].locs = <<LocationOf(i), LocationOf(j)>>

\* the resolved routing key of d is a string made of the kebab-case service
\* name, a dot and a non-empty event name of word characters and dashes
KeyHasEventForm(d, kebab) ==
  /\ d.patternExpr.given
  /\ d.patternExpr.type.kind = "stringLiteral"
  /\ LET key == d.patternExpr.type.text
     IN /\ Len(key) >= Len(kebab) + 2
        /\ \A i \in 1..Len(kebab) : key[i] = kebab[i]
        /\ key[Len(kebab) + 1] = "."
        /\ \A i \in (Len(kebab) + 2)..Len(key) : NameToken(key[i])

\* the event name of a key of that form, in PascalCase
PascalEventName(d, kebab) ==
  LET key == d.patternExpr.type.text
      ws == SelectSeq(SubSeq(key, Len(kebab) + 2, Len(key)), IsWord)
  IN [i \in 1..Len(ws) |-> Cap(Uncap(ws[i]))]

\* C10: an event handler becomes a record exactly when its resolved routing key
\* has the form <kebab-case service name>.<event-name>; the record then yields
\* the client method emit + the PascalCase event name, in the interface and in
\* the routing-key map; any other event handler gets a diagnostic citing it and
\* leaves no record
C10_EventKeyForm ==
  \A i \in DOMAIN scanLog :
    LET d == scanLog[i].decl
        m == scanLog[i].module
        kebab == ServiceNameKebabOf(mainModulePaths[m])
        emitName == <<"emit">> \o PascalEventName(d, kebab)
    IN isEventHandler(d) =>
         /\ (scanLog[i].outcome = "record") = KeyHasEventForm(d, kebab)
         /\ scanLog[i].outcome = "record" =>
              /\ \E r \in HeldRecords :
                   /\ r.pos = scanLog[i].pos
                   /\ r.isEventHandler
                   /\ <<"emit">> \o capitalize(r.eventName) = emitName
              /\ m \in DOMAIN generated =>
                   \E k \in DOMAIN generated[m].events :
                     generated[m].events[k].methodName = emitName
              /\ patternsFile /= <<>> =>
                   \E s \in DOMAIN patternsFile[1] :
                     /\ patternsFile[1][s].name = uncapitalize(ServiceNameOf(mainModulePaths[m]))
                     /\ \E k \in DOMAIN patternsFile[1][s].entries :
                          patternsFile[1][s].entries[k].key = emitName
         /\ scanLog[i].outcome /= "record" =>
              /\ \E k \in DOMAIN diagnostics : diagnostics[k].locs = <<LocationOf(i)>>
              /\ errorFlag
              /\ \A r \in HeldRecords : r.pos /= scanLog[i].pos

C10_Witness ==
  /\ pc = "exited"
  /\ patternsFile /= <<>>
  /\ \E i, j \in DOMAIN scanLog :
       /\ scanLog[i].decl.patternExpr.text = <<"'", "users", ".", "created", "'">>
       /\ scanLog[j].decl = scanLog[i].decl
       /\ scanLog[i].module = 1
       /\ scanLog[i].outcome = "record"
       /\ scanLog[j].module = 2
       /\ scanLog[j].outcome = "eventFormat"
  /\ \E k \in DOMAIN patternsFile[1][1].entries :
       patternsFile[1][1].entries[k].key = <<"emit", "Created">>

\* the name an item of an import statement binds: the alias after " as " if
\* the item has one, the imported name otherwise
BoundName(item) ==
  IF \E i \in DOMAIN item : item[i] = " as "
  THEN SubSeq(item, (CHOOSE i \in DOMAIN item : item[i] = " as ") + 1, Len(item))
  ELSE item

\* the (file, bound name) pairs of the import statements of a generated file
Bindings(file) ==
  UNION {{<<file.imports[k].from, BoundName(file.imports[k].classes[n])>> :
            n \in DOMAIN file.imports[k].classes} : k \in DOMAIN file.imports}

\* the class names the entries of the interface of a generated file refer to
ReferencedClasses(file) ==
  {file.msgs[i].className : i \in DOMAIN file.msgs}
    \cup UNION {{file.events[k].payloadType[i].className :
                   i \in DOMAIN file.events[k].payloadType} : k \in DOMAIN file.events}

\* module m has records of one class name in two controller files
HasDuplicateClassName(m) ==
  \E i, j \in RecordEntries(m) :
    /\ scanLog[i].decl.className = scanLog[j].decl.className
    /\ scanLog[i].decl.file /= scanLog[j].decl.file

\* C11: where one class name occurs in two or more controller files of a
\* service, every class name an interface entry refers to is bound by exactly
\* one import statement of the generated file, the name imported for a file is
\* the name its records use, and distinct files bind distinct names
C11_AliasedImportsConsistent ==
  \A m \in DOMAIN generated :
    HasDuplicateClassName(m) =>
      /\ \A c \in ReferencedClasses(generated[m]) :
           Cardinality({b \in Bindings(generated[m]) : b[2] = c}) = 1
      /\ \A i \in DOMAIN methodsByModule[m] :
           <<methodsByModule[m][i].controllerPath, methodsByModule[m][i].className>>
             \in Bindings(generated[m])
      /\ \A b1, b2 \in Bindings(generated[m]) : b1[1] /= b2[1] => b1[2] /= b2[2]

\* C12: when no handler of the run raised a diagnostic, every client method
\* name is a key of its service's entry of the generated routing-key map at
\* most once, also where several event handlers share one event name
C12_PatternMapIsMapping ==
  (patternsFile /= <<>> /\ diagnostics = <<>>) =>
    \A s \in DOMAIN patternsFile[1] :
      \A k1, k2 \in DOMAIN patternsFile[1][s].entries :
        patternsFile[1][s].entries[k1].key = patternsFile[1][s].entries[k2].key => k1 = k2

====
